---- MODULE Spec2Model ----
(***************************************************************************)
(* State-machine model of mpcpy/optimization.py: the Optimization          *)
(* orchestrator, its problem types (EnergyMin, EnergyCostMin,              *)
(* _ParameterEstimate) and its solver packages (JModelica, Python).        *)
(*                                                                         *)
(* Python objects are records.  A dict is a function whose domain is its   *)
(* key set, or a sequence of entries where the iteration order matters.    *)
(* Names that the code edits character by character (constraint variable   *)
(* names) are sequences of one-character strings.  The option dictionaries *)
(* live in a heap, because get_optimization_options hands out the stored   *)
(* dict itself and the caller can then change it in place.  The lists      *)
(* Model.input_names and Model.other_inputs are bound by reference in      *)
(* _initalize_mop (self._init_input_names = self.Model.input_names), so    *)
(* every write the package makes through its own name is a write to the    *)
(* Model's field.                                                          *)
(*                                                                         *)
(* The compiler, the simulator and the NLP solver are external: their      *)
(* outcomes (raise / return, sample count, solver status) are inputs of    *)
(* the actions.                                                            *)
(*                                                                         *)
(* Class Python has none of the methods that class JModelica defines for   *)
(* writing, compiling, simulating and reading results, so its constructor  *)
(* raises AttributeError for every problem type: an Optimization always    *)
(* holds a JModelica package.  The methods of class Python are modelled on *)
(* an instance made without its constructor (InitPython).                  *)
(***************************************************************************)
EXTENDS Integers, Sequences, FiniteSets, TLC

\* ------------------------------------------------------------------ bounds
MaxSolves == 2
MaxBuilds == 1
MaxSetOptions == 1

\* ------------------------------------------------------------- vocabulary
q == <<"q">>
T == <<"T">>
pi_e == <<"p", "i", "_", "e">>

EnergyMin == "EnergyMin"
EnergyCostMin == "EnergyCostMin"
ParameterEstimate == "_ParameterEstimate"
ProblemTypes == {EnergyMin, EnergyCostMin, ParameterEstimate}
ControlProblems == {EnergyMin, EnergyCostMin}

JModelica == "JModelica"
Python == "Python"
PackageTypes == {JModelica, Python}

DeclaredKinds == {"GTE", "LTE", "dGTE", "dLTE", "Initial", "Final", "Cyclic"}

AutoKeys == {"external_data", "init_traj", "nominal_traj", "n_e"}
OptKeys == AutoKeys \cup {"max_iter"}

\* Values stored in an option dict.  Every value is a record so that any two
\* of them can be compared, as Python's != compares them.
Absent == [tag |-> "absent", n |-> 0]
PyNone == [tag |-> "None", n |-> 0]
DefaultValue == [tag |-> "default", n |-> 0]
IntValue(n) == [tag |-> "int", n |-> n]
ResultValue(n) == [tag |-> "result", n |-> n]
ExternalDataValue(n) == [tag |-> "ExternalData", n |-> n]

NoTraj == [name |-> <<>>, src |-> -1, index |-> <<>>]
NoResult == [id |-> 0, time |-> <<>>, status |-> "none"]
NoExternalData == [id |-> 0, Q |-> 0, quad_pen |-> <<>>, eliminated |-> <<>>]
NoException == "none"

\* ---------------------------------------------------------------- helpers
RECURSIVE SeqToSet(_)
SeqToSet(s) == IF s = <<>> THEN {} ELSE {Head(s)} \cup SeqToSet(Tail(s))

Contains(s, x) == \E i \in 1..Len(s) : s[i] = x

RECURSIVE Filter(_, _)
Filter(s, keep) ==
  IF s = <<>> THEN <<>>
  ELSE (IF Head(s) \in keep THEN <<Head(s)>> ELSE <<>>) \o Filter(Tail(s), keep)

RECURSIVE Remove(_, _)
Remove(s, drop) ==
  IF s = <<>> THEN <<>>
  ELSE (IF Head(s) \in drop THEN <<>> ELSE <<Head(s)>>) \o Remove(Tail(s), drop)

\* dict[key] = value
DictSet(d, k, v) == [x \in DOMAIN d \cup {k} |-> IF x = k THEN v ELSE d[x]]

\* str.replace('.', '_')
RECURSIVE replace_dot(_)
replace_dot(key) ==
  IF key = <<>> THEN <<>>
  ELSE <<IF Head(key) = "." THEN "_" ELSE Head(key)>> \o replace_dot(Tail(key))

\* key.replace('.', '_') + '_' + field
key_new(key, field) == replace_dot(key) \o <<"_", field>>

\* ------------------------------------------------------------------ state
VARIABLES
  Model,            \* Optimization.Model: the dynamic-system model (borrowed)
  problem_type,     \* Optimization._problem_type
  package,          \* Optimization._package_type: the solver package instance
  constraint_data,  \* Optimization.constraint_data
  heap,             \* option dicts by reference
  last,             \* the last call: operation, arguments, exception, steps,
                    \* return value
  cnt,              \* how many calls, simulations, solves, compilations ran
  solved,           \* history: what the external solver last returned to the
                    \* current package instance (NoResult: nothing yet)
  pen               \* the local names of the last penalty_opt or
                    \* wrapper_sim_opt call, as the call left them

vars == <<Model, problem_type, package, constraint_data, heap, last, cnt, solved, pen>>

Refs == {1, 2}
EmptyDict == [k \in {} |-> Absent]

\* The program state as one value, threaded through the methods below.  exc is
\* the exception in flight; trace lists the steps of the running call; frame
\* holds the local names of a penalty_opt or wrapper_sim_opt call.
State == [Model |-> Model, problem_type |-> problem_type, package |-> package,
          constraint_data |-> constraint_data, heap |-> heap, cnt |-> cnt,
          trace |-> <<>>, exc |-> NoException, frame |-> pen]

Raise(st, e) == [st EXCEPT !.exc = e]
Step(st, name) == [st EXCEPT !.trace = Append(@, name)]

\* A value stored in Model.other_inputs or in a constraint.
EmptyList == [tag |-> "list", n |-> 0]
PriceSeries(n) == [tag |-> "price", n |-> n]
ConstraintValue(n) == [tag |-> "constraint", n |-> n]

\* ------------------------------------------------- building the .mop file
EmptyMop == [parameters |-> <<>>, init_inputs |-> <<>>, objective |-> <<"0">>,
             kind |-> "none", opt_inputs |-> <<>>, clauses |-> <<>>,
             free |-> <<>>]

\* JModelica._initalize_mop: the initialization model.  _init_input_names and
\* other_inputs are the Model's own list and dict, so the appends land there.
RECURSIVE add_extra_inputs(_, _)
add_extra_inputs(st, extra) ==
  IF extra = <<>> THEN st
  ELSE add_extra_inputs(
         [st EXCEPT !.Model.input_names = Append(@, Head(extra)),
                    !.Model.other_inputs = DictSet(@, Head(extra), EmptyList),
                    !.package.mop.init_inputs =
                        Append(@, [name |-> Head(extra), bound |-> FALSE])],
         Tail(extra))

_initalize_mop(st) ==
  LET pd == st.Model.parameter_data
      names == st.Model.input_names
      s1 == [st EXCEPT
               !.package.mop.parameters =
                   [i \in 1..Len(pd) |-> [key |-> pd[i].key, value |-> pd[i].Value]],
               !.package.mop.init_inputs =
                   [i \in 1..Len(names) |-> [name |-> names[i], bound |-> TRUE]],
               !.package.mop.objective = st.package.objective]
  IN add_extra_inputs(s1, st.package.extra_inputs)

\* JModelica._write_control_mop, first loop: one input per constraint whose
\* field is not Cyclic, Final or Initial.
RECURSIVE declare_constraint_inputs(_, _)
declare_constraint_inputs(st, cd) ==
  IF cd = <<>> THEN st
  ELSE LET c == Head(cd)
           kn == key_new(c.key, c.field)
           s1 == IF c.field # "Cyclic" /\ c.field # "Final" /\ c.field # "Initial"
                 THEN [st EXCEPT !.package.opt_input_names = Append(@, kn),
                                 !.Model.other_inputs = DictSet(@, kn, c.value),
                                 !.package.mop.opt_inputs = Append(@, kn)]
                 ELSE st
       IN declare_constraint_inputs(s1, Tail(cd))

\* Mutant: no clause is written for Cyclic.
clause_without_cyclic(c) ==
  LET kn == key_new(c.key, c.field)
      cl(lhs, rel, rhs, lit) ==
        <<[lhs |-> lhs, key |-> c.key, rel |-> rel, rhs |-> rhs, literal |-> lit]>>
  IN
  CASE c.field = "GTE"     -> cl("value", ">=", kn, 0)
    [] c.field = "dGTE"    -> cl("der", ">=", kn, 0)
    [] c.field = "LTE"     -> cl("value", "<=", kn, 0)
    [] c.field = "dLTE"    -> cl("der", "<=", kn, 0)
    [] c.field = "Initial" -> cl("startTime", "=", <<"literal">>, c.value.n)
    [] c.field = "Final"   -> cl("finalTime", "=", <<"literal">>, c.value.n)
    [] OTHER               -> <<>>

\* JModelica._write_control_mop, second loop: the constraint clauses.
clause(c) ==
  LET kn == key_new(c.key, c.field)
      cl(lhs, rel, rhs, lit) ==
        <<[lhs |-> lhs, key |-> c.key, rel |-> rel, rhs |-> rhs, literal |-> lit]>>
  IN
  CASE c.field = "GTE"     -> cl("value", ">=", kn, 0)
    [] c.field = "dGTE"    -> cl("der", ">=", kn, 0)
    [] c.field = "LTE"     -> cl("value", "<=", kn, 0)
    [] c.field = "dLTE"    -> cl("der", "<=", kn, 0)
    [] c.field = "Initial" -> cl("startTime", "=", <<"literal">>, c.value.n)
    [] c.field = "Final"   -> cl("finalTime", "=", <<"literal">>, c.value.n)
    [] c.field = "Cyclic"  -> cl("startTime", "=", <<"finalTime">>, 0)
    [] OTHER               -> <<>>

RECURSIVE clauses(_)
clauses(cd) == IF cd = <<>> THEN <<>> ELSE clause(Head(cd)) \o clauses(Tail(cd))

_write_control_mop(st) ==
  LET controls == DOMAIN st.Model.control_data
      s1 == [st EXCEPT !.package.opt_input_names =
                           Remove(st.Model.input_names, controls),
                       !.package.mop.kind = "control"]
      s2 == declare_constraint_inputs(s1, st.constraint_data)
  IN [s2 EXCEPT !.package.mop.clauses = clauses(st.constraint_data)]

\* JModelica._write_parameter_estimate_mop: one modification per free
\* parameter; the line of entry i opens the list when i = 1, else closes it
\* when i = I, else continues it.
free_parameters(pd) ==
  LET RECURSIVE F(_)
      F(s) == IF s = <<>> THEN <<>>
              ELSE (IF Head(s).Free THEN <<Head(s)>> ELSE <<>>) \o F(Tail(s))
  IN F(pd)

free_line(p, i, I) ==
  [key |-> p.key, initialGuess |-> p.Value, min |-> p.Minimum, max |-> p.Maximum,
   opens |-> (i = 1),
   end |-> IF i = 1 THEN "," ELSE IF i = I THEN "));" ELSE ","]

_write_parameter_estimate_mop(st) ==
  LET fp == free_parameters(st.Model.parameter_data)
      I == Len(fp)
  IN [st EXCEPT !.package.mop.kind = "parameter_estimate",
                !.package.mop.free = [i \in 1..I |-> free_line(fp[i], i, I)]]

\* JModelica._compile_transfer_problem: compile_fmu and
\* transfer_optimization_problem, both external.
_compile_transfer_problem(st) ==
  Step([st EXCEPT !.cnt.compile = @ + 1], "compile")

\* ------------------------------------------------------ option handling
\* opt_problem.optimize_options(): the transcription's default options, a new
\* dict on every call.
optimize_options ==
  [k \in OptKeys |-> IF k \in {"external_data", "init_traj", "nominal_traj"}
                     THEN PyNone ELSE DefaultValue]

\* JModelica._set_optimization_options / Python._set_optimization_options.
\* ref is the dict passed in; the stored dict becomes that very object.
auto_key_changed(new, held) ==
  \E key \in DOMAIN new \cap AutoKeys :
     key \notin DOMAIN held \/ new[key] # held[key]

\* Mutant: the mapping is stored before the check, so a call that raises has
\* already replaced the stored options.
_set_optimization_options_storing_first(st, ref, init) ==
  IF ~init /\ auto_key_changed(st.heap[ref], st.heap[st.package.ref])
  THEN Raise([st EXCEPT !.package.ref = ref], "KeyError")
  ELSE [st EXCEPT !.package.ref = ref]

\* Mutant: after the check the mapping is dropped; only the constructor's
\* default options are stored.
_set_optimization_options_dropping(st, ref, init) ==
  IF ~init /\ auto_key_changed(st.heap[ref], st.heap[st.package.ref])
  THEN Raise(st, "KeyError")
  ELSE IF init THEN [st EXCEPT !.package.ref = ref] ELSE st

_set_optimization_options(st, ref, init) ==
  IF ~init /\ auto_key_changed(st.heap[ref], st.heap[st.package.ref])
  THEN Raise(st, "KeyError")
  ELSE [st EXCEPT !.package.ref = ref]

\* JModelica._get_optimization_options / Python._get_optimization_options:
\* the stored dict itself, not a copy.
_get_optimization_options(st) == st.package.ref

\* Mutant: the statistics of a result that may not exist are returned as None
\* instead of failing.
_get_optimization_statistics_lenient(pkg) ==
  [exc |-> NoException, stats |-> pkg.res_opt]

\* JModelica._get_optimization_statistics / Python._get_optimization_statistics:
\* self.res_opt.get_solver_statistics(); res_opt exists only after a solve.
_get_optimization_statistics(pkg) ==
  IF pkg.res_opt = NoResult
  THEN [exc |-> "AttributeError", stats |-> NoResult]
  ELSE [exc |-> NoException, stats |-> pkg.res_opt]

\* ------------------------------------------------- problem types: set-up
objective_of(pt, objective_variable) ==
  CASE pt = EnergyMin         -> <<"mpc_model.">> \o objective_variable
    [] pt = EnergyCostMin     -> <<"mpc_model.">> \o objective_variable \o <<"*", "pi_e">>
    [] pt = ParameterEstimate -> <<"0">>

extra_inputs_of(pt) == IF pt = EnergyCostMin THEN <<pi_e>> ELSE <<>>

\* EnergyMin._setup_jmodelica, EnergyCostMin._setup_jmodelica,
\* _ParameterEstimate._setup_jmodelica.  The methods called after the
\* attributes are set are methods of class JModelica; class Python has none
\* of them, so the first call on a Python instance is an AttributeError.
_setup_jmodelica(st) ==
  LET pt == st.problem_type
      s0 == [st EXCEPT !.package.objective = objective_of(pt, q),
                       !.package.extra_inputs = extra_inputs_of(pt)]
      s1 == _initalize_mop(s0)
      s2 == IF pt = ParameterEstimate THEN _write_parameter_estimate_mop(s1)
            ELSE _write_control_mop(s1)
  IN IF st.package.kind = Python THEN Raise(s0, "AttributeError")
     ELSE _compile_transfer_problem(s2)

\* A package instance before __init__ has run: no attribute is set.
NewInstance(kind) ==
  [kind |-> kind, ref |-> 0, objective |-> <<"0">>, extra_inputs |-> <<>>,
   mop |-> EmptyMop, opt_input_names |-> <<>>, input_names |-> <<>>,
   input_object |-> <<>>, built_for |-> "none",
   measurement_variable_list |-> [set |-> FALSE, list |-> <<>>],
   start_time_utc |-> 0, elapsed_seconds |-> 0,
   res_init |-> 0, ncp |-> 0, external_data |-> NoExternalData,
   has_parameter_data |-> FALSE,
   opt_problem |-> [start_time |-> 0, final_time |-> 0, parameters |-> <<>>],
   res_opt |-> NoResult]

\* Mutant: the new instance takes over the option dict of the one it replaces.
Package__init__keeping_options(st, kind, fresh) ==
  LET s0 == [st EXCEPT !.package = [NewInstance(kind) EXCEPT !.built_for = st.problem_type]]
      s1 == _setup_jmodelica(s0)
      s2 == [s1 EXCEPT !.heap[fresh] = optimize_options]
  IN IF s1.exc # NoException THEN s1
     ELSE IF st.package.ref = 0 THEN _set_optimization_options(s2, fresh, TRUE)
     ELSE [s1 EXCEPT !.package.ref = st.package.ref]

\* JModelica.__init__ / Python.__init__: set the problem up, then store the
\* default options.  fresh is the address of the new default dict.  In the
\* state returned the package is the instance under construction; when the
\* set-up raised, the caller never gets it.
Package__init__(st, kind, fresh) ==
  LET s0 == [st EXCEPT !.package = [NewInstance(kind) EXCEPT !.built_for = st.problem_type]]
      s1 == _setup_jmodelica(s0)
      s2 == [s1 EXCEPT !.heap[fresh] = optimize_options]
  IN IF s1.exc # NoException THEN s1
     ELSE _set_optimization_options(s2, fresh, TRUE)

\* ------------------------------------------------------------ the solve
\* Continue with F unless an exception is in flight.
Then(st, F(_)) == IF st.exc # NoException THEN st ELSE F(st)

\* Model._set_time_interval
_set_time_interval(st, start_time, final_time) ==
  Step([st EXCEPT !.Model.start_time_utc = start_time,
                  !.Model.final_time_utc = final_time,
                  !.Model.elapsed_seconds = final_time - start_time],
       "set_time")

\* JModelica._simulate_initial.  ext.sim_ok and ext.ncp are what the external
\* simulation does: raise or return, and the sample count it used.
_simulate_initial(st, ext) ==
  LET s1 == [st EXCEPT
               !.package.opt_input_names =
                   IF st.problem_type = ParameterEstimate
                   THEN st.Model.input_names ELSE @,
               !.package.input_names = st.Model.input_names,
               !.package.start_time_utc = st.Model.start_time_utc,
               !.package.elapsed_seconds = st.Model.elapsed_seconds,
               !.cnt.sim = @ + 1]
      s2 == Step(s1, "simulate")
  IN IF ~ext.sim_ok THEN Raise(s2, "SimulationError")
     ELSE [s2 EXCEPT !.package.ncp = ext.ncp,
                     !.package.res_init = st.cnt.optimize]

\* JModelica._create_external_data.  quad_pen is an OrderedDict: a variable
\* listed twice has one entry, at the place of its first occurrence, while
\* N_mea, the size of Q, counts every entry of the list.  eliminated is a
\* dict keyed by the names of the input object: a name the input object
\* holds twice has one entry.
_create_external_data(st) ==
  LET mvl == st.package.measurement_variable_list
      known == \A i \in 1..Len(mvl.list) :
                  /\ mvl.list[i] \in DOMAIN st.Model.measurements
                  /\ st.Model.measurements[mvl.list[i]].Measured.src >= 0
      RECURSIVE ordered(_, _)
      ordered(list, d) ==
        IF list = <<>> THEN d
        ELSE ordered(Tail(list),
                     IF Contains(d, Head(list)) THEN d ELSE Append(d, Head(list)))
      N_mea == IF mvl.set THEN Len(mvl.list) ELSE 0
      quad_pen == IF mvl.set THEN ordered(mvl.list, <<>>) ELSE <<>>
  IN IF mvl.set /\ ~known THEN Raise(st, "KeyError")
     ELSE Step([st EXCEPT !.package.external_data =
                     [id |-> st.cnt.optimize, Q |-> N_mea,
                      quad_pen |-> quad_pen,
                      eliminated |-> ordered(st.package.input_object, <<>>)]],
               "external_data")

\* Mutant: n_e is written only while the option still has its default value.
set_auto_options_keeping_n_e(st) ==
  LET d0 == st.heap[st.package.ref]
      d1 == DictSet(d0, "external_data", ExternalDataValue(st.package.external_data.id))
      d2 == DictSet(d1, "init_traj", ResultValue(st.package.res_init))
      d3 == DictSet(d2, "nominal_traj", ResultValue(st.package.res_init))
      d4 == IF "n_e" \in DOMAIN d0 /\ d0["n_e"] # DefaultValue THEN d3
            ELSE DictSet(d3, "n_e", IntValue(st.package.ncp))
  IN Step([st EXCEPT !.heap[st.package.ref] = d4], "options")

\* JModelica._solve, the option writes (Python._solve has the same
\* statements, after the call that raises)
set_auto_options(st) ==
  LET d0 == st.heap[st.package.ref]
      d1 == DictSet(d0, "external_data", ExternalDataValue(st.package.external_data.id))
      d2 == DictSet(d1, "init_traj", ResultValue(st.package.res_init))
      d3 == DictSet(d2, "nominal_traj", ResultValue(st.package.res_init))
      d4 == DictSet(d3, "n_e", IntValue(st.package.ncp))
  IN Step([st EXCEPT !.heap[st.package.ref] = d4], "options")

\* JModelica._solve, opt_problem.set and opt_problem.optimize.
\* ext.solve is what the external solver does: "raise", or the status it
\* reports in the result it returns.
push_and_optimize(st, ext) ==
  LET pd == st.Model.parameter_data
      s1 == [st EXCEPT
               !.package.opt_problem.parameters =
                   IF st.package.has_parameter_data
                   THEN [i \in 1..Len(pd) |-> [key |-> pd[i].key, value |-> pd[i].Value]]
                   ELSE @,
               !.package.opt_problem.start_time = 0,
               !.package.opt_problem.final_time = st.Model.elapsed_seconds,
               !.cnt.solve = @ + 1]
      s2 == Step(Step(s1, "set_horizon"), "solve")
  IN IF ext.solve = "raise" THEN Raise(s2, "SolverError")
     ELSE [s2 EXCEPT !.package.res_opt =
               [id |-> st.cnt.optimize,
                time |-> <<0, s1.package.opt_problem.final_time>>,
                status |-> ext.solve]]

\* Mutant: a solve whose status is not Solve_Succeeded is run a second time.
_solve_retrying(st, ext) ==
  LET opts(s) == set_auto_options(s)
      run(s) == push_and_optimize(s, ext)
      s0 == [st EXCEPT !.package.input_object = st.package.opt_input_names]
      first == Then(Then(_create_external_data(s0), opts), run)
  IN IF first.exc = NoException /\ ext.solve # "Solve_Succeeded"
     THEN run(first) ELSE first

\* JModelica._solve / Python._solve: the input object is made from
\* opt_input_names, then the external data is built.  Class Python has no
\* _create_external_data, so Python._solve ends there in an AttributeError.
_solve(st, ext) ==
  LET opts(s) == set_auto_options(s)
      run(s) == push_and_optimize(s, ext)
      s0 == [st EXCEPT !.package.input_object = st.package.opt_input_names]
  IN IF st.package.kind = Python THEN Raise(s0, "AttributeError")
     ELSE Then(Then(_create_external_data(s0), opts), run)

\* JModelica._get_control_results
timeindex(start_time_utc, time) ==
  [i \in 1..Len(time) |-> start_time_utc + time[i]]

\* Mutant: only the control variables are written back; the measurements keep
\* the 'Simulated' series they had.
_get_control_results_controls_only(st) ==
  LET res == st.package.res_opt
      ts(key) == [name |-> key, src |-> res.id,
                  index |-> timeindex(st.package.start_time_utc, res.time)]
  IN Step([st EXCEPT !.Model.control_data = [key \in DOMAIN @ |-> ts(key)]],
          "writeback")

_get_control_results(st) ==
  LET res == st.package.res_opt
      ts(key) == [name |-> key, src |-> res.id,
                  index |-> timeindex(st.package.start_time_utc, res.time)]
  IN Step([st EXCEPT
             !.Model.control_data = [key \in DOMAIN @ |-> ts(key)],
             !.Model.measurements =
                 [key \in DOMAIN @ |-> [@[key] EXCEPT !.Simulated = ts(key)]]],
          "writeback")

\* JModelica._get_parameter_results.  ext.estimate is the point value the
\* solver returned.
_get_parameter_results(st, ext) ==
  Step([st EXCEPT !.Model.parameter_data =
           [i \in DOMAIN @ |-> IF @[i].Free THEN [@[i] EXCEPT !.Value = ext.estimate]
                               ELSE @[i]]],
       "writeback")

\* Mutant: the results are written to the Model before the solve.
JModelica_energymin_eager(st, ext) ==
  LET solve(s) == _solve(s, ext)
      results(s) == _get_control_results(s)
  IN Then(Then(_simulate_initial(Step(st, "_energymin"), ext), results), solve)

\* JModelica._energymin
JModelica_energymin(st, ext) ==
  LET solve(s) == _solve(s, ext)
      results(s) == _get_control_results(s)
  IN Then(Then(_simulate_initial(Step(st, "_energymin"), ext), solve), results)

\* JModelica._energycostmin
JModelica_energycostmin(st, price_data, ext) ==
  LET solve(s) == _solve(s, ext)
      results(s) == _get_control_results(s)
      s0 == Step(st, "_energycostmin")
  IN IF pi_e \notin DOMAIN price_data THEN Raise(s0, "KeyError")
     ELSE Then(Then(_simulate_initial(
                      [s0 EXCEPT !.Model.other_inputs = DictSet(@, pi_e, price_data[pi_e])],
                      ext), solve), results)

\* JModelica._parameterestimate
JModelica_parameterestimate(st, measurement_variable_list, ext) ==
  LET solve(s) == _solve(s, ext)
      results(s) == _get_parameter_results(s, ext)
      s0 == [st EXCEPT !.package.measurement_variable_list =
                           [set |-> TRUE, list |-> measurement_variable_list]]
  IN Then(Then(_simulate_initial(Step(s0, "_parameterestimate"), ext), solve), results)

\* Python._energymin: its first statement calls self._simulate_initial, which
\* class Python does not have.
Python_energymin(st, ext) == Raise(Step(st, "_energymin"), "AttributeError")

\* Python._energycostmin: pass
Python_energycostmin(st, price_data, ext) == Step(st, "_energycostmin")

\* Python._parameterestimate: pass
Python_parameterestimate(st, measurement_variable_list, ext) ==
  Step(st, "_parameterestimate")

\* EnergyMin._optimize
EnergyMin_optimize(st, kwargs, ext) ==
  IF st.package.kind = JModelica THEN JModelica_energymin(st, ext)
  ELSE Python_energymin(st, ext)

\* EnergyCostMin._optimize
EnergyCostMin_optimize(st, kwargs, ext) ==
  IF ~kwargs.has_price_data THEN Raise(st, "KeyError")
  ELSE IF st.package.kind = JModelica
       THEN JModelica_energycostmin(st, kwargs.price_data, ext)
       ELSE Python_energycostmin(st, kwargs.price_data, ext)

\* Mutant: a missing measurement_variable_list is read as an empty one.
ParameterEstimate_optimize_default(st, kwargs, ext) ==
  IF st.package.kind = JModelica
  THEN JModelica_parameterestimate(st, kwargs.measurement_variable_list, ext)
  ELSE Python_parameterestimate(st, kwargs.measurement_variable_list, ext)

\* _ParameterEstimate._optimize
ParameterEstimate_optimize(st, kwargs, ext) ==
  IF ~kwargs.has_measurement_variable_list THEN Raise(st, "KeyError")
  ELSE IF st.package.kind = JModelica
       THEN JModelica_parameterestimate(st, kwargs.measurement_variable_list, ext)
       ELSE Python_parameterestimate(st, kwargs.measurement_variable_list, ext)

\* Mutant: every optimize call compiles and transfers the problem again.
Optimization_optimize_recompiling(st, start_time, final_time, kwargs, ext) ==
  LET s0 == _compile_transfer_problem([st EXCEPT !.cnt.optimize = @ + 1])
      s1 == _set_time_interval(s0, start_time, final_time)
  IN CASE st.problem_type = EnergyMin         -> EnergyMin_optimize(s1, kwargs, ext)
       [] st.problem_type = EnergyCostMin     -> EnergyCostMin_optimize(s1, kwargs, ext)
       [] st.problem_type = ParameterEstimate -> ParameterEstimate_optimize(s1, kwargs, ext)

\* Optimization.optimize
Optimization_optimize(st, start_time, final_time, kwargs, ext) ==
  LET s0 == [st EXCEPT !.cnt.optimize = @ + 1]
      s1 == _set_time_interval(s0, start_time, final_time)
  IN CASE st.problem_type = EnergyMin         -> EnergyMin_optimize(s1, kwargs, ext)
       [] st.problem_type = EnergyCostMin     -> EnergyCostMin_optimize(s1, kwargs, ext)
       [] st.problem_type = ParameterEstimate -> ParameterEstimate_optimize(s1, kwargs, ext)

\* ----------------------------------------------------------- the inputs
w == <<"w">>

\* Data the Model holds before any solve (src = 0).
Given(key) == [name |-> key, src |-> 0, index |-> <<0>>]

Parameter(key, free) ==
  [key |-> key, Free |-> free, Value |-> 3, Minimum |-> 1, Maximum |-> 7]

NoParameters == <<>>
OneFixed == <<Parameter(<<"C">>, FALSE)>>
OneFree == <<Parameter(<<"C">>, TRUE)>>
TwoFreeOfThree ==
  <<Parameter(<<"C">>, TRUE), Parameter(<<"R">>, FALSE), Parameter(<<"K">>, TRUE)>>
ThreeFree ==
  <<Parameter(<<"C">>, TRUE), Parameter(<<"R">>, TRUE), Parameter(<<"K">>, TRUE)>>

InitialModel(pd) ==
  [start_time_utc |-> 0, final_time_utc |-> 0, elapsed_seconds |-> 0,
   control_data |-> [key \in {q} |-> Given(key)],
   measurements |-> [key \in {T, q} |->
                       [Sample |-> 1800, Measured |-> Given(key), Simulated |-> NoTraj]],
   parameter_data |-> pd,
   input_names |-> <<q, w>>,
   other_inputs |-> EmptyDict]

Constraint(key, field, n) == [key |-> key, field |-> field, value |-> ConstraintValue(n)]

NoConstraints == <<>>
Bounds ==
  <<Constraint(q, "GTE", 0), Constraint(T, "GTE", 1), Constraint(T, "LTE", 3)>>
AllOtherKinds ==
  <<Constraint(T, "dGTE", 0), Constraint(T, "dLTE", 1), Constraint(T, "Initial", 2),
    Constraint(T, "Final", 2), Constraint(T, "Cyclic", 1)>>
UnknownKind == <<Constraint(T, "GTE", 1), Constraint(T, "Between", 2)>>
DotAndUnderscore ==
  <<Constraint(<<"a", ".", "b">>, "GTE", 1), Constraint(<<"a", "_", "b">>, "GTE", 2)>>

\* The Models and constraint sets an Optimization is constructed with.
MainScenarios == { <<TwoFreeOfThree, Bounds>> }

Scenarios ==
  { <<NoParameters, Bounds>>, <<OneFixed, NoConstraints>>, <<OneFree, UnknownKind>>,
    <<TwoFreeOfThree, AllOtherKinds>>, <<ThreeFree, DotAndUnderscore>> }

Horizons == {<<0, 1>>, <<1, 3>>}
MainHorizons == {<<1, 3>>}

MainExtInputs ==
  { [sim_ok |-> TRUE, ncp |-> 2, solve |-> "Solve_Succeeded", estimate |-> 5],
    [sim_ok |-> TRUE, ncp |-> 3, solve |-> "Maximum_Iterations_Exceeded", estimate |-> 5] }

ExtInputs ==
  MainExtInputs \cup {[sim_ok |-> FALSE, ncp |-> 0, solve |-> "raise", estimate |-> 0],
                      [sim_ok |-> TRUE, ncp |-> 3, solve |-> "raise", estimate |-> 0]}

NoPrices == [k \in {} |-> EmptyList]
Prices == [k \in {pi_e} |-> PriceSeries(1)]

Kwargs ==
  [has_price_data : {FALSE}, price_data : {NoPrices},
   has_measurement_variable_list : {FALSE}, measurement_variable_list : {<<>>}]
  \cup [has_price_data : {TRUE}, price_data : {NoPrices, Prices},
        has_measurement_variable_list : {FALSE}, measurement_variable_list : {<<>>}]
  \cup [has_price_data : {FALSE}, price_data : {NoPrices},
        has_measurement_variable_list : {TRUE},
        measurement_variable_list : {<<>>, <<T>>, <<T, T>>}]

MainKwargs ==
  { k \in Kwargs : /\ k.has_price_data => k.price_data = Prices
                   /\ k.has_measurement_variable_list => k.measurement_variable_list = <<T>> }

UserValues == {IntValue(2)}

\* ------------------------------------------------------------ penalty run
\* Python.penalty_opt and Python.wrapper_sim_opt.  Neither method has a
\* parameter or a local variable named Optimization, so in their bodies the
\* name is the module's class Optimization.  Model and constraint_data are
\* set by Optimization.__init__ on the instance it initialises (82-86); the
\* class object has its methods and no such attribute, so reading
\* Optimization.Model or Optimization.constraint_data raises AttributeError.
\* cost_function, update_input and run_sim_opt are written inside
\* wrapper_sim_opt after its return statement (1001): no run of the method
\* executes their def statements, and the names are never bound.

\* nr_of_iterations = 666
nr_of_iterations == 666

\* muefun: the schedule the caller passes, a function of the iteration index.
Schedules == {"linear", "double"}
muefun(schedule, k) == IF schedule = "linear" THEN k ELSE 2 * k

\* A control variable of the Model with its sample values.
Sampled(key, values) ==
  [name |-> key, src |-> 0, index |-> [i \in 1..Len(values) |-> i - 1],
   values |-> values]

\* The attributes of the class object Optimization: its methods.
ClassAttributes ==
  {"__init__", "optimize", "set_problem_type", "set_package_type",
   "get_optimization_options", "set_optimization_options",
   "get_optimization_statistics"}

\* Optimization.<name>, evaluated with Optimization the class.
class_getattr(st, name) ==
  IF name \in ClassAttributes THEN st ELSE Raise(st, "AttributeError")

\* A local name of the running method is bound to a value.
Bind(st, name, value) == [st EXCEPT !.frame = DictSet(@, name, value)]

\* Mutant: the control variables of the Model are overwritten with a
\* candidate before the attribute of the class is read.
Python_penalty_opt_updating(st, schedule) ==
  LET s0 == Bind(Bind(Bind([st EXCEPT !.frame = EmptyDict], "muefun", schedule),
                      "xx", <<>>), "xx_inf", <<>>)
      s1 == [s0 EXCEPT !.Model.control_data =
               [key \in DOMAIN @ |->
                  [@[key] EXCEPT !.values = [i \in DOMAIN @ |-> 0]]]]
  IN class_getattr(Step(s1, "penalty_opt"), "Model")

\* Python.penalty_opt(muefun).  xx = [] and xx_inf = [] (1138-1139); then the
\* header of the first loop evaluates Optimization.Model (1141), which
\* raises.  No later statement runs: nothing is flattened, muefun is not
\* called, wrapper_sim_opt is not called, no result list is created.
Python_penalty_opt(st, schedule) ==
  LET s0 == Bind(Bind(Bind([st EXCEPT !.frame = EmptyDict], "muefun", schedule),
                      "xx", <<>>), "xx_inf", <<>>)
  IN class_getattr(Step(s0, "penalty_opt"), "Model")

\* The keyword arguments of a wrapper_sim_opt call: a dict with any of the
\* keys x_init (an array), x_list (the array and its labels) and mue.
PenaltyKwargs ==
  { [k \in D |-> CASE k = "x_init" -> <<4, 6>>
                   [] k = "x_list" -> <<<<4, 6>>, <<q, q>>>>
                   [] k = "mue" -> mue] :
      D \in SUBSET {"x_init", "x_list", "mue"}, mue \in {1, 2} }

\* if name in kwargs: local = kwargs[name]; else: print 'error'
kwarg(st, kwargs, name, local) ==
  IF name \in DOMAIN kwargs THEN Bind(st, local, kwargs[name])
  ELSE Step(st, "print error")

\* Python.wrapper_sim_opt(**kwargs).  The three keywords are read, a missing
\* one is answered with a print (861-875); opt_disc = x.size (878) raises
\* UnboundLocalError when x_init was not passed; the five lists are created
\* (881-885); then the header of the loop evaluates
\* Optimization.constraint_data (886), which raises.  No bound is built and
\* no optimizer is called.
Python_wrapper_sim_opt(st, kwargs) ==
  LET s0 == Step([st EXCEPT !.frame = EmptyDict], "wrapper_sim_opt")
      s1 == kwarg(s0, kwargs, "x_init", "x")
      s2 == kwarg(s1, kwargs, "x_list", "x_list")
      s3 == kwarg(s2, kwargs, "mue", "mue")
      s4 == Bind(s3, "opt_disc", Len(s3.frame.x))
      s5 == Bind(Bind(Bind(Bind(Bind(s4, "lower", <<>>), "upper", <<>>),
                           "initial", <<>>), "final", <<>>), "cyclic", <<>>)
  IN IF "x" \notin DOMAIN s3.frame THEN Raise(s3, "UnboundLocalError")
     ELSE class_getattr(s5, "constraint_data")

\* ------------------------------------------------------------ the machine
ZeroCounts ==
  [optimize |-> 0, sim |-> 0, solve |-> 0, compile |-> 0, build |-> 0, set_options |-> 0]

\* Dicts nobody refers to any more are dropped.
Collect(h, live) == [r \in Refs |-> IF r \in live THEN h[r] ELSE EmptyDict]

Fresh(other) == CHOOSE r \in Refs : r # other

NoReturn == [stats |-> NoResult, options |-> EmptyDict]

NoArgs == [signal |-> "", way |-> "", key |-> "", value |-> PyNone]

\* What a call optimize(..., **kwargs) says about the keyword the problem type
\* reads: "absent", "empty" or "given"; "none" when the type reads none.
signal(pt, kwargs) ==
  CASE pt = EnergyMin -> "none"
    [] pt = EnergyCostMin ->
         IF ~kwargs.has_price_data THEN "absent"
         ELSE IF pi_e \notin DOMAIN kwargs.price_data THEN "empty" ELSE "given"
    [] pt = ParameterEstimate ->
         IF ~kwargs.has_measurement_variable_list THEN "absent"
         ELSE IF kwargs.measurement_variable_list = <<>> THEN "empty" ELSE "given"

Commit(st, op, args, ret) ==
  /\ Model' = st.Model
  /\ problem_type' = st.problem_type
  /\ package' = st.package
  /\ constraint_data' = st.constraint_data
  /\ heap' = Collect(st.heap, {st.package.ref})
  /\ cnt' = st.cnt
  /\ last' = [op |-> op, args |-> args, exc |-> st.exc, trace |-> st.trace, ret |-> ret]
  /\ pen' = st.frame

\* Optimization.__init__.  When the package constructor raises, so does this
\* one, and there is no Optimization object.
Optimization__init__(model, pt, kind, cd) ==
  Package__init__([Model |-> model, problem_type |-> pt,
                   package |-> NewInstance(kind), constraint_data |-> cd,
                   heap |-> [r \in Refs |-> EmptyDict], cnt |-> ZeroCounts,
                   trace |-> <<>>, exc |-> NoException, frame |-> EmptyDict],
                  kind, 1)

\* The Optimization objects that exist after construction: a construction
\* that raised (every one with the Python package) leaves none.
InitWith(scenarios, kinds) ==
  \E sc \in scenarios, pt \in ProblemTypes, kind \in kinds :
    LET st == Optimization__init__(InitialModel(sc[1]), pt, kind, sc[2]) IN
    /\ st.exc = NoException
    /\ Model = st.Model
    /\ problem_type = st.problem_type
    /\ package = st.package
    /\ constraint_data = st.constraint_data
    /\ heap = st.heap
    /\ cnt = st.cnt
    /\ last = [op |-> "__init__", args |-> NoArgs, exc |-> st.exc,
               trace |-> st.trace, ret |-> NoReturn]
    /\ solved = NoResult
    /\ pen = EmptyDict

Init == InitWith(MainScenarios, {JModelica})

\* The methods of class Python can run only on an instance that __init__ did
\* not make, since Python.__init__ raises for every problem type: an instance
\* made by Python.__new__(Python), none of whose attributes is set, held as
\* _package_type by an Optimization that was constructed with the JModelica
\* package.  setups is a set of <<Model, problem type, constraint data>>.
InitPython(setups) ==
  \E su \in setups :
    LET st == Optimization__init__(su[1], su[2], JModelica, su[3]) IN
    /\ Model = st.Model
    /\ problem_type = st.problem_type
    /\ package = NewInstance(Python)
    /\ constraint_data = st.constraint_data
    /\ heap = [r \in Refs |-> EmptyDict]
    /\ cnt = st.cnt
    /\ last = [op |-> "__new__", args |-> NoArgs, exc |-> NoException,
               trace |-> <<>>, ret |-> NoReturn]
    /\ solved = NoResult
    /\ pen = EmptyDict

\* Optimization.optimize.  The history records the result when the external
\* solver returned one: it did if it was invoked and did not raise.
optimize(start_time, final_time, kwargs, ext) ==
  /\ cnt.optimize < MaxSolves
  /\ LET st == Optimization_optimize(State, start_time, final_time, kwargs, ext) IN
     /\ Commit(st, "optimize",
               [NoArgs EXCEPT !.signal = signal(problem_type, kwargs)], NoReturn)
     /\ solved' = IF Contains(st.trace, "solve") /\ ext.solve # "raise"
                  THEN [id |-> cnt.optimize + 1,
                        time |-> <<0, final_time - start_time>>,
                        status |-> ext.solve]
                  ELSE solved

\* Mutant: the package is rebuilt before the problem type is replaced.
Optimization_set_problem_type_stale(st, pt, fresh) ==
  [Package__init__([st EXCEPT !.cnt.build = @ + 1], st.package.kind, fresh)
     EXCEPT !.problem_type = pt]

\* self._package_type = package_type(self): the instance the constructor
\* returns is stored and counted; when the constructor raises, the assignment
\* does not happen and the package of before stays.
assign_package(st, built) ==
  IF built.exc # NoException THEN [built EXCEPT !.package = st.package]
  ELSE [built EXCEPT !.cnt.build = @ + 1]

\* Optimization.set_problem_type
Optimization_set_problem_type(st, pt, fresh) ==
  LET s0 == [st EXCEPT !.problem_type = pt]
  IN assign_package(s0, Package__init__(s0, st.package.kind, fresh))

set_problem_type(pt) ==
  /\ cnt.build < MaxBuilds
  /\ LET st == Optimization_set_problem_type(State, pt, Fresh(package.ref)) IN
     /\ Commit(st, "set_problem_type", NoArgs, NoReturn)
     /\ solved' = IF st.exc # NoException THEN solved ELSE NoResult

\* Optimization.set_package_type
Optimization_set_package_type(st, kind, fresh) ==
  assign_package(st, Package__init__(st, kind, fresh))

set_package_type(kind) ==
  /\ cnt.build < MaxBuilds
  /\ LET st == Optimization_set_package_type(State, kind, Fresh(package.ref)) IN
     /\ Commit(st, "set_package_type", NoArgs, NoReturn)
     /\ solved' = IF st.exc # NoException THEN solved ELSE NoResult

\* Optimization.get_optimization_options
get_optimization_options ==
  /\ Commit(State, "get_optimization_options", NoArgs,
            [NoReturn EXCEPT !.options = heap[_get_optimization_options(State)]])
  /\ UNCHANGED solved

\* The mapping a caller passes to set_optimization_options.  way says where
\* it comes from: "returned" is the dict get_optimization_options returned,
\* "copy" is a copy of it, "new" is a dict the caller made.  The caller then
\* assigns value to key in it (opt_options['n_e'] = 2), unless key is "".
caller_mapping(st, way, key, value) ==
  LET ref == IF way = "returned" THEN _get_optimization_options(st)
             ELSE Fresh(st.package.ref)
      d0 == IF way = "new" THEN EmptyDict ELSE st.heap[st.package.ref]
      d1 == IF key = "" THEN d0 ELSE DictSet(d0, key, value)
  IN [ref |-> ref, st |-> [st EXCEPT !.heap[ref] = d1]]

\* Optimization.set_optimization_options
Optimization_set_optimization_options(st, ref) ==
  _set_optimization_options([st EXCEPT !.cnt.set_options = @ + 1], ref, FALSE)

set_optimization_options(way, key, value) ==
  /\ cnt.set_options < MaxSetOptions
  /\ LET m == caller_mapping(State, way, key, value) IN
     Commit(Optimization_set_optimization_options(m.st, m.ref),
            "set_optimization_options",
            [NoArgs EXCEPT !.way = way, !.key = key, !.value = value], NoReturn)
  /\ UNCHANGED solved

\* Optimization.get_optimization_statistics
get_optimization_statistics ==
  /\ LET r == _get_optimization_statistics(package) IN
     Commit(Raise(State, r.exc), "get_optimization_statistics", NoArgs,
            [NoReturn EXCEPT !.stats = r.stats])
  /\ UNCHANGED solved

Ways == {"returned", "copy", "new"}

Next ==
  \/ \E h \in MainHorizons, kwargs \in MainKwargs, ext \in MainExtInputs :
        optimize(h[1], h[2], kwargs, ext)
  \/ \E pt \in ProblemTypes : set_problem_type(pt)
  \/ \E kind \in PackageTypes : set_package_type(kind)
  \/ get_optimization_options
  \/ \E way \in Ways, key \in OptKeys \cup {""}, value \in UserValues :
        set_optimization_options(way, key, value)

Spec == Init /\ [][Next]_vars

\* The same machine over every scenario, without the option calls: the
\* specification of the claims about what a build writes.
InitBuild == InitWith(Scenarios, PackageTypes)

NextBuild ==
  \/ \E h \in Horizons, kwargs \in Kwargs, ext \in ExtInputs :
        optimize(h[1], h[2], kwargs, ext)
  \/ \E pt \in ProblemTypes : set_problem_type(pt)
  \/ \E kind \in PackageTypes : set_package_type(kind)
  \/ get_optimization_statistics

SpecBuild == InitBuild /\ [][NextBuild]_vars

\* The dispatch of optimize to the methods of class Python: _energymin,
\* _energycostmin and _parameterestimate applied to an instance of it.
InitStubs ==
  InitPython({<<InitialModel(sc[1]), pt, sc[2]>> : sc \in Scenarios, pt \in ProblemTypes})

NextStubs ==
  \/ \E h \in Horizons, kwargs \in Kwargs, ext \in ExtInputs :
        optimize(h[1], h[2], kwargs, ext)
  \/ get_optimization_statistics

SpecStubs == InitStubs /\ [][NextStubs]_vars

\* ===================================================================
\* Properties
\* ===================================================================

\* The value the package holds under key (Absent: none).
Held(key) ==
  IF key \in DOMAIN heap[package.ref] THEN heap[package.ref][key] ELSE Absent

SameModelData ==
  /\ Model'.control_data = Model.control_data
  /\ Model'.parameter_data = Model.parameter_data
  /\ \A key \in DOMAIN Model.measurements :
        Model'.measurements[key].Simulated = Model.measurements[key].Simulated

\* The trajectory that the solve of the last optimize call yields for key.
SolvedTrajectory(key) ==
  [name |-> key, src |-> cnt.optimize,
   index |-> timeindex(Model.start_time_utc, solved.time)]

\* C1: a set_optimization_options call whose mapping gives an auto-managed
\* key a value that differs from the value the package holds raises, however
\* the caller obtained the mapping (the dict returned by
\* get_optimization_options included).
C1_AutoKeyChangeRaises ==
  [][(/\ last'.op = "set_optimization_options"
      /\ last'.args.key \in AutoKeys
      /\ Held(last'.args.key) # last'.args.value)
     => last'.exc = "KeyError"]_vars

\* C2: after set_problem_type, get_optimization_options returns the default
\* options of the new package; no value a caller set before is left.
C2_ProblemTypeResetsOptions ==
  last.op = "set_problem_type" =>
    LET returned == heap[_get_optimization_options(State)] IN
    /\ returned = optimize_options
    /\ \A key \in DOMAIN returned : returned[key] \notin UserValues

C2_Witness ==
  /\ last.op = "set_problem_type"
  /\ cnt.set_options > 0
  /\ cnt.solve > 0

\* C3: an optimize call that reaches Python._energycostmin or
\* Python._parameterestimate ends in a "not implemented" failure (stated
\* for the dispatch to an instance of class Python, SpecStubs).
C3_StubsFail ==
  (/\ last.op = "optimize"
   /\ package.kind = Python
   /\ \/ Contains(last.trace, "_energycostmin")
      \/ Contains(last.trace, "_parameterestimate"))
  => last.exc = "NotImplementedError"

\* C4: a control problem is never built from a constraint set that holds a
\* kind outside the seven declared ones, and no input is declared or
\* registered for such a kind.
C4_UnknownKindRejected ==
  \A i \in 1..Len(constraint_data) :
    LET c == constraint_data[i] IN
    c.field \notin DeclaredKinds =>
      /\ package.mop.kind # "control"
      /\ ~Contains(package.mop.opt_inputs, key_new(c.key, c.field))
      /\ key_new(c.key, c.field) \notin DOMAIN Model.other_inputs

\* C5: get_optimization_statistics fails as long as the solver has returned
\* nothing to the current package instance, and returns the statistics of
\* the most recent result otherwise.
C5_StatisticsNeedSolve ==
  last.op = "get_optimization_statistics" =>
    IF solved = NoResult THEN last.exc = "AttributeError"
    ELSE last.exc = NoException /\ last.ret.stats = solved

C5_Witness ==
  /\ last.op = "get_optimization_statistics"
  /\ last.exc = "AttributeError"
  /\ cnt.build > 0
  /\ Model.control_data[q].src > 0

\* C6: optimize without the keyword its problem type reads fails before the
\* initial simulation and the solve, and leaves the Model's control,
\* measurement and parameter data as they were.
C6_MissingSignalFailsEarly ==
  [][(last'.op = "optimize" /\ last'.args.signal = "absent")
     => /\ last'.exc = "KeyError"
        /\ ~Contains(last'.trace, "simulate")
        /\ ~Contains(last'.trace, "solve")
        /\ SameModelData
        /\ Model'.measurements = Model.measurements]_vars

C6_Witness ==
  /\ last.op = "optimize"
  /\ last.args.signal = "absent"
  /\ last.exc = "KeyError"
  /\ Model.control_data[q].src > 0

\* C7: optimize with the keyword present but empty fails and invokes no
\* solve (stated for the JModelica package).
C7_EmptySignalFails ==
  (last.op = "optimize" /\ last.args.signal = "empty" /\ package.kind = JModelica)
  => (last.exc # NoException /\ ~Contains(last.trace, "solve"))

\* C8: a successful optimize of a control problem leaves the Model's input
\* names, other inputs, parameter data and the slots of its measurements
\* other than 'Simulated' as they were.
C8_ControlSolveFrame ==
  [][(/\ last'.op = "optimize"
      /\ last'.exc = NoException
      /\ problem_type \in ControlProblems)
     => /\ Model'.input_names = Model.input_names
        /\ Model'.other_inputs = Model.other_inputs
        /\ Model'.parameter_data = Model.parameter_data
        /\ \A key \in DOMAIN Model.measurements :
              /\ Model'.measurements[key].Sample = Model.measurements[key].Sample
              /\ Model'.measurements[key].Measured = Model.measurements[key].Measured]_vars

\* C9: when the initial simulation or the solve of an optimize call raises,
\* the Model's control trajectories, 'Simulated' slots and parameter values
\* are as before; they change only in a call in which the solver returned.
C9_NoWriteBackOnFailure ==
  [][last'.op = "optimize"
     => /\ last'.exc \in {"SimulationError", "SolverError"}
           => SameModelData /\ ~Contains(last'.trace, "writeback")
        /\ ~SameModelData => solved'.id = cnt'.optimize]_vars

C9_Witness ==
  /\ last.op = "optimize"
  /\ last.exc = "SolverError"
  /\ Contains(last.trace, "solve")
  /\ Model.control_data[q].src > 0

\* C10: after a successful optimize of a control problem every control
\* variable and every measurement's 'Simulated' slot holds the series of this
\* call's solve, indexed by the horizon start plus the result's offsets.
C10_ResultsAreFresh ==
  (last.op = "optimize" /\ last.exc = NoException /\ problem_type \in ControlProblems)
  => /\ \A key \in DOMAIN Model.control_data :
           Model.control_data[key] = SolvedTrajectory(key)
     /\ \A key \in DOMAIN Model.measurements :
           Model.measurements[key].Simulated = SolvedTrajectory(key)

C10_Witness ==
  /\ last.op = "optimize"
  /\ last.exc = NoException
  /\ problem_type = EnergyCostMin
  /\ cnt.solve = 2
  /\ Model.start_time_utc = 1
  /\ Model.measurements[T].Simulated = SolvedTrajectory(T)
  /\ Model.control_data[q].src = 2

\* C11: after an optimize call that reached the option writes of _solve, the
\* four auto-managed keys hold what this call computed: init_traj and
\* nominal_traj the result of this call's initial simulation, n_e the sample
\* count of that simulation, external_data the structure built in this call.
C11_AutoKeysRecomputed ==
  (last.op = "optimize" /\ Contains(last.trace, "options"))
  => /\ package.res_init = cnt.optimize
     /\ package.external_data.id = cnt.optimize
     /\ Held("init_traj") = ResultValue(cnt.optimize)
     /\ Held("nominal_traj") = ResultValue(cnt.optimize)
     /\ Held("n_e") = IntValue(package.ncp)
     /\ Held("external_data") = ExternalDataValue(cnt.optimize)

C11_Witness ==
  /\ last.op = "optimize"
  /\ last.exc = NoException
  /\ Contains(last.trace, "options")
  /\ cnt.set_options > 0
  /\ cnt.solve > 1
  /\ package.ncp = 3

\* The package instance was set up by the current problem type.
BuiltAgainstCurrent ==
  /\ package.built_for = problem_type
  /\ package.objective = objective_of(problem_type, q)
  /\ package.extra_inputs = extra_inputs_of(problem_type)
  /\ package.mop.kind =
        IF problem_type = ParameterEstimate THEN "parameter_estimate" ELSE "control"

\* C12: set_problem_type rebuilds a package of the kind it had,
\* set_package_type leaves the problem type as it was, and after each of them
\* the package is the one built against the current problem type.
C12_RebuildAgainstCurrent ==
  [][/\ last'.op = "set_problem_type" => package'.kind = package.kind
     /\ last'.op = "set_package_type" => problem_type' = problem_type
     /\ BuiltAgainstCurrent']_vars

C12_Witness ==
  /\ last.op = "set_problem_type"
  /\ problem_type = ParameterEstimate
  /\ Model.control_data[q].src > 0
  /\ BuiltAgainstCurrent

\* C13: after a set_optimization_options call that succeeds, the stored
\* options (what get_optimization_options returns) are the mapping passed;
\* an optimize call keeps the stored dict and every entry of it outside the
\* four auto-managed keys.
C13_UserOptionsPersist ==
  [][/\ (last'.op = "set_optimization_options" /\ last'.exc = NoException)
        => LET m == caller_mapping(State, last'.args.way, last'.args.key,
                                   last'.args.value)
           IN heap'[package'.ref] = m.st.heap[m.ref]
     /\ last'.op = "optimize"
        => /\ package'.ref = package.ref
           /\ \A key \in DOMAIN heap[package.ref] \ AutoKeys :
                 /\ key \in DOMAIN heap'[package'.ref]
                 /\ heap'[package'.ref][key] = heap[package.ref][key]]_vars

C13_Witness ==
  /\ last.op = "optimize"
  /\ last.exc = NoException
  /\ Contains(last.trace, "solve")
  /\ cnt.set_options > 0
  /\ Held("max_iter") = IntValue(2)
  /\ Held("n_e") = IntValue(3)

\* C14: the inputs of the initialization model are the Model's base inputs
\* (those it had before any Optimization was constructed on it) followed by
\* the extra inputs of the current problem type, each once.
C14_InitInputsExact ==
  LET BaseInputs == InitialModel(NoParameters).input_names
      InitInputNames ==
        [i \in 1..Len(package.mop.init_inputs) |-> package.mop.init_inputs[i].name]
  IN InitInputNames = BaseInputs \o extra_inputs_of(problem_type)

OnlyDeclaredKinds ==
  \A i \in 1..Len(constraint_data) : constraint_data[i].field \in DeclaredKinds

\* C15: for a constraint set over the seven kinds, the optimization stage of
\* a control problem holds one clause per declared (variable, kind) pair, in
\* the order of declaration, and no other: a bound compares the value (a
\* derivative bound the derivative) with the bound's input, Initial and Final
\* equate the value at start and end with the literal, Cyclic equates the
\* value at start with the value at end.
C15_OneClausePerConstraint ==
  (problem_type \in ControlProblems /\ OnlyDeclaredKinds)
  => /\ Len(package.mop.clauses) = Len(constraint_data)
     /\ \A i \in 1..Len(constraint_data) :
          LET c == constraint_data[i]
              cl == package.mop.clauses[i]
              bound == replace_dot(c.key) \o <<"_", c.field>>
          IN /\ cl.key = c.key
             /\ c.field = "GTE" => cl.lhs = "value" /\ cl.rel = ">=" /\ cl.rhs = bound
             /\ c.field = "LTE" => cl.lhs = "value" /\ cl.rel = "<=" /\ cl.rhs = bound
             /\ c.field = "dGTE" => cl.lhs = "der" /\ cl.rel = ">=" /\ cl.rhs = bound
             /\ c.field = "dLTE" => cl.lhs = "der" /\ cl.rel = "<=" /\ cl.rhs = bound
             /\ c.field = "Initial"
                  => /\ cl.lhs = "startTime" /\ cl.rel = "="
                     /\ cl.rhs = <<"literal">> /\ cl.literal = c.value.n
             /\ c.field = "Final"
                  => /\ cl.lhs = "finalTime" /\ cl.rel = "="
                     /\ cl.rhs = <<"literal">> /\ cl.literal = c.value.n
             /\ c.field = "Cyclic"
                  => cl.lhs = "startTime" /\ cl.rel = "=" /\ cl.rhs = <<"finalTime">>

C15_Witness ==
  /\ last.op = "set_problem_type"
  /\ problem_type \in ControlProblems
  /\ constraint_data = AllOtherKinds
  /\ Len(package.mop.clauses) = 5

BoundKinds == {"GTE", "LTE", "dGTE", "dLTE"}

\* C16: in the optimization stage of a control problem a declared
\* (variable, kind) pair has an additional input exactly when its kind is a
\* bound or a derivative bound; the input is then among the inputs supplied
\* to the solve and the constraint's data is registered under its name.  No
\* other additional input is declared.
C16_BoundInputsRegistered ==
  (problem_type \in ControlProblems /\ OnlyDeclaredKinds)
  => /\ \A i \in 1..Len(constraint_data) :
          LET c == constraint_data[i]
              kn == key_new(c.key, c.field)
          IN IF c.field \in BoundKinds
             THEN /\ Contains(package.mop.opt_inputs, kn)
                  /\ Contains(package.opt_input_names, kn)
                  /\ kn \in DOMAIN Model.other_inputs
                  /\ Model.other_inputs[kn] = c.value
             ELSE ~Contains(package.mop.opt_inputs, kn)
     /\ Len(package.mop.opt_inputs) =
          Cardinality({i \in 1..Len(constraint_data) :
                         constraint_data[i].field \in BoundKinds})

BuildOps == {"__init__", "set_problem_type", "set_package_type"}

\* C17: when a parameter estimation problem has been built on a Model with
\* n >= 1 free parameters, the optimization stage declares exactly these n
\* parameters free, each with its value as initial guess and its minimum and
\* maximum, in one modification list opened by the first entry and closed
\* once, by the last entry; it holds no constraint clause.
C17_FreeParametersDeclared ==
  LET fp == free_parameters(Model.parameter_data)
      free == package.mop.free
  IN (problem_type = ParameterEstimate /\ last.op \in BuildOps /\ Len(fp) >= 1)
     => /\ Len(free) = Len(fp)
        /\ \A i \in 1..Len(fp) :
              /\ free[i].key = fp[i].key
              /\ free[i].initialGuess = fp[i].Value
              /\ free[i].min = fp[i].Minimum
              /\ free[i].max = fp[i].Maximum
              /\ free[i].opens <=> i = 1
              /\ free[i].end = "));" <=> i = Len(fp)
        /\ package.mop.clauses = <<>>

\* C18: on a Model without a free parameter, building a parameter estimation
\* problem or optimizing it fails, and no compilation, simulation or solve is
\* started (stated for the JModelica package).
C18_NoFreeParameterFails ==
  (/\ problem_type = ParameterEstimate
   /\ package.kind = JModelica
   /\ last.op \in BuildOps \cup {"optimize"}
   /\ free_parameters(Model.parameter_data) = <<>>)
  => /\ last.exc # NoException
     /\ ~Contains(last.trace, "compile")
     /\ ~Contains(last.trace, "simulate")
     /\ ~Contains(last.trace, "solve")

StepOrder ==
  <<"set_time", "simulate", "external_data", "options", "set_horizon", "solve",
    "writeback">>

\* The steps of the last call, without the name of the package method.
Steps == Remove(last.trace, {"_energymin", "_energycostmin", "_parameterestimate"})

IsPrefix(a, b) == Len(a) <= Len(b) /\ SubSeq(b, 1, Len(a)) = a

\* C19: the steps of an optimize call on the JModelica package are an initial
\* part of: set the time window, simulate, build the external data, write the
\* auto-managed options, push the horizon, solve, write the results back;
\* a call that returns normally has made each step once, whatever status the
\* solver reported.  The horizon pushed is 0 and the elapsed seconds of the
\* window this call set.
C19_StepOrder ==
  (last.op = "optimize" /\ package.kind = JModelica)
  => /\ IsPrefix(Steps, StepOrder)
     /\ last.exc = NoException => Steps = StepOrder
     /\ Contains(last.trace, "set_horizon")
          => /\ package.opt_problem.start_time = 0
             /\ package.opt_problem.final_time = Model.elapsed_seconds
             /\ Model.elapsed_seconds = Model.final_time_utc - Model.start_time_utc

C19_Witness ==
  /\ last.op = "optimize"
  /\ package.kind = JModelica
  /\ last.exc = NoException
  /\ cnt.optimize = 2
  /\ solved.id = cnt.optimize
  /\ solved.status = "Maximum_Iterations_Exceeded"

\* C20: the problem is compiled and transferred once per package instance:
\* once for the construction and once for each set_problem_type and
\* set_package_type call that built an instance (cnt.build counts them; a
\* call whose constructor raised built none and compiled nothing); each of
\* these calls does it once and an optimize call never does.
C20_CompiledOncePerInstance ==
  /\ cnt.compile = cnt.build + 1
  /\ (last.op \in BuildOps /\ last.exc = NoException)
     => Len(Filter(last.trace, {"compile"})) = 1
  /\ last.op = "optimize" => ~Contains(last.trace, "compile")

C20_Witness ==
  /\ last.op = "optimize"
  /\ last.exc = NoException
  /\ Contains(last.trace, "solve")
  /\ cnt.optimize = 2
  /\ cnt.build = 1
  /\ cnt.compile = 2

\* ===================================================================
\* Replacing the Model's parameter values between optimize calls
\* ===================================================================

\* unittests test_set_parameters: the caller assigns a dictionary with new
\* values to Optimization.Model.parameter_data; pick says whether the new
\* value of every parameter is its minimum or its maximum.
ParameterPicks == {"Minimum", "Maximum"}

replace_values(pd, pick) ==
  [i \in DOMAIN pd |->
     [pd[i] EXCEPT !.Value = IF pick = "Minimum" THEN pd[i].Minimum ELSE pd[i].Maximum]]

set_parameter_data(pick) ==
  /\ Model.parameter_data # <<>>
  /\ Commit([State EXCEPT !.Model.parameter_data = replace_values(@, pick)],
            "set_parameter_data", NoArgs, NoReturn)
  /\ solved' = solved

\* The machine of test_set_parameters: optimize calls on one JModelica
\* package with replacements of the parameter values in between.
ParameterScenarios == { <<OneFixed, Bounds>>, <<TwoFreeOfThree, Bounds>> }

InitParameters == InitWith(ParameterScenarios, {JModelica})

NextParameters ==
  \/ \E h \in Horizons, kwargs \in MainKwargs, ext \in ExtInputs :
        optimize(h[1], h[2], kwargs, ext)
  \/ \E pick \in ParameterPicks : set_parameter_data(pick)

SpecParameters == InitParameters /\ [][NextParameters]_vars

\* The parameter values of a parameter dictionary, by key.
ValuesOf(pd) == [i \in DOMAIN pd |-> [key |-> pd[i].key, value |-> pd[i].Value]]

\* The parameter values the package's model unit was compiled with: they
\* are what the initial-guess simulation runs with.
SimulatedWith(pkg) == pkg.mop.parameters

\* The parameter values of the transcribed problem: the compiled ones,
\* replaced by what _solve pushed with opt_problem.set.
TranscribedWith(pkg) ==
  IF pkg.opt_problem.parameters # <<>> THEN pkg.opt_problem.parameters
  ELSE pkg.mop.parameters

\* C21: an optimize call that reaches its solve simulates the initial guess
\* and solves the transcribed problem with the parameter values the Model
\* holds when the call is made, also when they were replaced after the
\* package was built.
C21_NewParametersUsed ==
  [][(last'.op = "optimize" /\ Contains(last'.trace, "solve"))
        => /\ SimulatedWith(package') = ValuesOf(Model.parameter_data)
           /\ TranscribedWith(package') = ValuesOf(Model.parameter_data)]_vars

\* C29: a set_optimization_options call that raises KeyError for an
\* auto-managed key leaves the package with the dict it held before and with
\* every entry of that dict as it was; nothing of the rejected mapping is
\* stored.
C29_RejectedMappingNotStored ==
  [][(last'.op = "set_optimization_options" /\ last'.exc = "KeyError")
        => /\ package'.ref = package.ref
           /\ heap'[package'.ref] = heap[package.ref]]_vars

\* A copy of the stored options with n_e changed was rejected.
C29_Witness ==
  /\ last.op = "set_optimization_options"
  /\ last.exc = "KeyError"
  /\ last.args.way = "copy"
  /\ last.args.key = "n_e"
  /\ Held("n_e") # last.args.value

\* C30: in the optimization stage of a control problem two different
\* declared (variable, kind) pairs with a bound kind have different
\* additional-input names, and no additional input is declared twice.
C30_DistinctInputNames ==
  (problem_type \in ControlProblems /\ OnlyDeclaredKinds)
  => /\ \A i, j \in 1..Len(constraint_data) :
          LET c == constraint_data[i]
              d == constraint_data[j]
          IN (/\ c.field \in BoundKinds
              /\ d.field \in BoundKinds
              /\ <<c.key, c.field>> # <<d.key, d.field>>)
             => key_new(c.key, c.field) # key_new(d.key, d.field)
     /\ \A m, n \in 1..Len(package.mop.opt_inputs) :
          m # n => package.mop.opt_inputs[m] # package.mop.opt_inputs[n]

\* ===================================================================
\* The penalty run of class Python
\* ===================================================================

\* The Model of a penalty run: one control channel with two samples.
PenaltyModel ==
  [InitialModel(NoParameters) EXCEPT
     !.control_data = [key \in {q} |-> Sampled(key, <<4, 6>>)]]

\* Constraint sets: a lower and an upper bound on the control channel and on
\* a state variable; an upper bound on each only; none.
PenaltyBounds ==
  <<Constraint(q, "GTE", 0), Constraint(q, "LTE", 10),
    Constraint(T, "GTE", 1), Constraint(T, "LTE", 3)>>
UpperOnly == <<Constraint(q, "LTE", 10), Constraint(T, "LTE", 3)>>

InitPenalty ==
  InitPython({<<PenaltyModel, pt, cd>> :
                 pt \in ProblemTypes, cd \in {PenaltyBounds, UpperOnly, <<>>}})

\* package.penalty_opt(muefun)
penalty_opt(schedule) ==
  /\ package.kind = Python
  /\ Commit(Python_penalty_opt(State, schedule), "penalty_opt", NoArgs, NoReturn)
  /\ solved' = solved

\* package.wrapper_sim_opt(**kwargs)
wrapper_sim_opt(kwargs) ==
  /\ package.kind = Python
  /\ Commit(Python_wrapper_sim_opt(State, kwargs), "wrapper_sim_opt", NoArgs, NoReturn)
  /\ solved' = solved

NextPenalty ==
  \/ \E schedule \in Schedules : penalty_opt(schedule)
  \/ \E kwargs \in PenaltyKwargs : wrapper_sim_opt(kwargs)

SpecPenalty == InitPenalty /\ [][NextPenalty]_vars

\* Whether constraint_data declares the bound field on key, and its value.
HasBound(key, field) ==
  \E i \in 1..Len(constraint_data) :
     constraint_data[i].key = key /\ constraint_data[i].field = field

BoundOf(key, field) ==
  constraint_data[CHOOSE i \in 1..Len(constraint_data) :
                    constraint_data[i].key = key /\ constraint_data[i].field = field].value.n

\* The bound a decision-vector entry of channel key is to get: the declared
\* value, or none.
BoundEntry(key, field) ==
  IF HasBound(key, field) THEN IntValue(BoundOf(key, field)) ELSE PyNone

\* The inner optimizations a penalty_opt call performed: its calls of
\* wrapper_sim_opt.
InnerOptimizations == Len(Filter(last.trace, {"wrapper_sim_opt"}))

C27_OneOptimizationPerIndex ==
  last.op = "penalty_opt"
  => /\ last.exc = NoException
     /\ InnerOptimizations = nr_of_iterations

====
